---- MODULE Spec2Model ----
(***************************************************************************)
(* Model of the economic-events bot (src/main.py): the event refresh job,  *)
(* the notifier job, the destination registry and the events handlers,     *)
(* together with the pure computations of the refresh job (next applicable *)
(* date, previous value, value formatting).                                *)
(*                                                                         *)
(* Time: a datetime is a record [day, hour, minute, second]; day is a day  *)
(* number whose weekday is day % 7 with 0 = Monday (datetime.weekday()).   *)
(* An ISO string is modelled by the tuple of its fields: <<day>> for       *)
(* 'YYYY-MM-DD', <<day, hour, minute, second>> for                         *)
(* 'YYYY-MM-DDTHH:MM:SS'; string order is the lexicographic order of the   *)
(* tuples, a proper prefix being smaller.                                  *)
(* Numbers: a float value is modelled in hundredths, Num(410) is 4.10;     *)
(* None and NaN are the model values None and NaN.                         *)
(***************************************************************************)
EXTENDS Integers, Sequences, FiniteSets, Bags, TLC

VARIABLES
    arg,      \* input of the pure computation under check
    res,      \* its locals / result
    phase,    \* its program position
    daily_events,           \* the event cache (line 31)
    ANNOUNCEMENT_CHANNELS,  \* the destination registry (line 28)
    clock,    \* the current instant, in seconds since day 0, 00:00:00 UTC
    ticks,    \* notifier ticks started so far
    nt,       \* the check_events coroutine: position and locals
    tick,     \* what the current (or last) notifier tick did
    fired,    \* per cache position, the ticks on which its event was in the window
    lastRun,  \* what the last run of update_daily_events did
    ev,       \* the events handlers: position and reply
    cmd       \* the last setchannel / removechannel invocation

pureVars == <<arg, res, phase>>
botVars == <<daily_events, ANNOUNCEMENT_CHANNELS, clock, ticks, nt, tick, fired,
             lastRun, ev, cmd>>
vars == <<arg, res, phase, daily_events, ANNOUNCEMENT_CHANNELS, clock, ticks, nt,
          tick, fired, lastRun, ev, cmd>>

\* Python None, float NaN and a float number, tagged so that they compare
None == <<"none">>
NaN == <<"nan">>
Num(x) == <<"num", x>>

(***************************************************************************)
(* Bounds of the model.                                                    *)
(***************************************************************************)
MaxDay == 6          \* start days 0..MaxDay (a full week at least)
MaxSeriesLen == 3    \* observations in a series returned by the gateway
NumIndicators == 2   \* catalog entries a refresh run walks through
NumChannels == 2     \* chat channels
MaxTicks == 3        \* notifier ticks in a behaviour

(***************************************************************************)
(* datetime / date helpers.                                                *)
(***************************************************************************)
Weekday(d) == d % 7

\* date.isoformat(): 'YYYY-MM-DD'
isoformat(d) == <<d>>

\* datetime.fromisoformat(): a date-only string parses to midnight
fromisoformat(s) ==
    IF Len(s) = 1
    THEN [day |-> s[1], hour |-> 0, minute |-> 0, second |-> 0]
    ELSE [day |-> s[1], hour |-> s[2], minute |-> s[3], second |-> s[4]]

(***************************************************************************)
(* The bot's state after construction (lines 28, 31) at clock value 0,     *)
(* before on_ready starts the two tasks.                                   *)
(***************************************************************************)
NoTick == [outcome |-> "none", now |-> 0, events |-> <<>>, seen |-> <<>>,
           trig |-> {}, log |-> EmptyBag, reg |-> {}, touched |-> FALSE]

IdleNotifier == [pc |-> "idle", now |-> 0, events |-> <<>>, i |-> 0,
                 visited |-> {}, size |-> 0, ch |-> 0]

NoRun == [outcome |-> "none", failed |-> {}, completed |-> 0]

NoEvents == [pc |-> "idle", reply |-> <<>>]

NoCommand == [name |-> "none", channel |-> 0, administrator |-> FALSE]

\* the value of cmd in a run that keeps no record of the invocations
Unrecorded == [name |-> "unrecorded", channel |-> 0, administrator |-> FALSE]

BotIdle ==
    /\ daily_events = <<>>
    /\ ANNOUNCEMENT_CHANNELS = {}
    /\ clock = 0
    /\ ticks = 0
    /\ nt = IdleNotifier
    /\ tick = NoTick
    /\ fired = [held |-> TRUE, count |-> <<>>]
    /\ lastRun = NoRun
    /\ ev = NoEvents
    /\ cmd = NoCommand

(***************************************************************************)
(* fetch_economic_events, lines 86-98: the next applicable date.           *)
(***************************************************************************)
\* "at or after 16:30": the cutoff compared on the time of day as a whole
AfterCutoffByTimeOfDay(now) == now.hour * 60 + now.minute >= 16 * 60 + 30

\* line 87: now.hour >= 16 and now.minute >= 30
AfterCutoff(now) == now.hour >= 16 /\ now.minute >= 30

\* lines 87-90
CutoffDay(now) == IF AfterCutoff(now) THEN now.day + 1 ELSE now.day

\* line 93 as mutated: only Sunday counts as weekend
IsWeekendOffByOne(d) == Weekday(d) > 5

\* line 93: next_day.weekday() >= 5
IsWeekend(d) == Weekday(d) >= 5

RECURSIVE SkipWeekend(_)
\* lines 93-94
SkipWeekend(d) == IF IsWeekend(d) THEN SkipWeekend(d + 1) ELSE d

\* lines 86-98: release_date = next_day.date()
release_date(now) == SkipWeekend(CutoffDay(now))

(***************************************************************************)
(* SpecDate: the date computation, one step per statement, from every      *)
(* weekday and every hour:minute.                                          *)
(***************************************************************************)
InitDate ==
    /\ arg \in [day : 0..MaxDay, hour : 0..23, minute : 0..59]
    /\ res = [next_day |-> None, iters |-> 0, time |-> None]
    /\ phase = "cutoff"
    /\ BotIdle

\* lines 87-90
CutoffStep ==
    /\ phase = "cutoff"
    /\ res' = [res EXCEPT !.next_day = CutoffDay(arg)]
    /\ phase' = "weekend"
    /\ UNCHANGED <<arg, botVars>>

\* lines 93-94: one iteration of the while loop
WeekendStep ==
    /\ phase = "weekend"
    /\ IsWeekend(res.next_day)
    /\ res' = [res EXCEPT !.next_day = @ + 1, !.iters = @ + 1]
    /\ UNCHANGED <<arg, phase, botVars>>

\* lines 93, 98, 148: loop exit, release_date and the event's 'time'
DateDone ==
    /\ phase = "weekend"
    /\ ~IsWeekend(res.next_day)
    /\ res' = [res EXCEPT !.time = isoformat(res.next_day)]
    /\ phase' = "done"
    /\ UNCHANGED <<arg, botVars>>

NextDate == CutoffStep \/ WeekendStep \/ DateDone

SpecDate == InitDate /\ [][NextDate]_vars

\* C7: the next applicable date advances to the next calendar day exactly
\* when the current time is at or after 16:30 (16:30 through 23:59), and
\* does not advance before 16:30.
C7_AdvancesIffAtOrAfterCutoff ==
    (phase = "weekend" /\ res.iters = 0) =>
        res.next_day = (IF AfterCutoffByTimeOfDay(arg) THEN arg.day + 1 ELSE arg.day)

\* C8: the date of every published event is a weekday: a date that lands on
\* Saturday or Sunday after the cutoff rule is advanced to the following
\* Monday, a weekday is kept, and the weekend loop ends within two
\* iterations from every start day and time.
C8_ReleaseDateIsWeekday ==
    /\ res.iters <= 2
    /\ phase = "done" =>
        LET c == CutoffDay(arg)
            r == fromisoformat(res.time).day
        IN  /\ Weekday(r) \in 0..4
            /\ Weekday(c) = 5 => (r = c + 2 /\ Weekday(r) = 0)
            /\ Weekday(c) = 6 => (r = c + 1 /\ Weekday(r) = 0)
            /\ Weekday(c) \in 0..4 => r = c
            /\ r = release_date(arg)

\* C8 witness: Friday 16:45 moves to Saturday by the cutoff rule and ends on Monday
C8_Witness ==
    /\ phase = "done"
    /\ Weekday(arg.day) = 4 /\ arg.hour = 16 /\ arg.minute = 45
    /\ res.iters = 2
    /\ fromisoformat(res.time).day = arg.day + 3

(***************************************************************************)
(* The indicator catalog, lines 34-67, in source (dict) order.             *)
(***************************************************************************)
ECONOMIC_INDICATORS ==
    << <<"CPIAUCSL", "Consumer Price Index (CPI)">>,
       <<"CPILFESL", "Core CPI (excluding Food & Energy)">>,
       <<"PAYEMS", "Nonfarm Payroll">>,
       <<"UNRATE", "Unemployment Rate">>,
       <<"GDP", "Gross Domestic Product">>,
       <<"FEDFUNDS", "Federal Funds Rate">>,
       <<"INDPRO", "Industrial Production Index">>,
       <<"RSXFS", "Retail Sales">>,
       <<"RRSFS", "Real Retail Sales">>,
       <<"VIXCLS", "VIX Volatility Index">>,
       <<"DTWEXB", "US Dollar Index">>,
       <<"DCOILWTICO", "Crude Oil WTI">>,
       <<"DGS2", "2-Year Treasury Rate">>,
       <<"DGS10", "10-Year Treasury Rate">>,
       <<"T10Y2Y", "10Y-2Y Treasury Spread">>,
       <<"WALCL", "Fed Balance Sheet Total Assets">>,
       <<"M2V", "Velocity of M2 Money Stock">>,
       <<"BOGMBASE", "Monetary Base">>,
       <<"ICSA", "Initial Jobless Claims">>,
       <<"PCE", "Personal Consumption Expenditures">>,
       <<"HOUST", "Housing Starts">> >>

CatalogKeys == {ECONOMIC_INDICATORS[i][1] : i \in DOMAIN ECONOMIC_INDICATORS}

(***************************************************************************)
(* fetch_economic_events, lines 106-124: the previous value.               *)
(* A series is the sequence of its values in the order the gateway returns *)
(* them (ascending time); NaN is an absent observation.                    *)
(***************************************************************************)
\* pd.notna
notna(val) == val[1] = "num"

\* lines 109-117: the 30-day window, or the limit=1 series when it is empty
SeriesUsed(window, latest) == IF window = <<>> THEN latest ELSE window

RECURSIVE LastNotNa(_)
\* the most recent (last) non-null value of a series in ascending time order
LastNotNa(series) ==
    IF series = <<>> THEN None
    ELSE IF notna(series[Len(series)]) THEN series[Len(series)]
    ELSE LastNotNa(SubSeq(series, 1, Len(series) - 1))

RECURSIVE FirstNotNa(_)
\* lines 120-124: for val in series: if pd.notna(val): previous_value = val; break
FirstNotNa(series) ==
    IF series = <<>> THEN None
    ELSE IF notna(series[1]) THEN series[1]
    ELSE FirstNotNa(Tail(series))

\* lines 106-124
previous_value(window, latest) == FirstNotNa(SeriesUsed(window, latest))

(***************************************************************************)
(* SpecPrev: the previous-value selection on every window series of up to  *)
(* MaxSeriesLen observations and every limit=1 answer of the gateway.      *)
(***************************************************************************)
ObsValues == {NaN, Num(-25), Num(410)}

SeriesUpTo(n) == UNION {[1..k -> ObsValues] : k \in 0..n}

InitPrev ==
    /\ arg \in [window : SeriesUpTo(MaxSeriesLen), latest : SeriesUpTo(1)]
    /\ res = [series |-> None, previous_value |-> None]
    /\ phase = "fetch"
    /\ BotIdle

\* lines 109-117
GetSeries ==
    /\ phase = "fetch"
    /\ res' = [res EXCEPT !.series = SeriesUsed(arg.window, arg.latest)]
    /\ phase' = "scan"
    /\ UNCHANGED <<arg, botVars>>

\* lines 120-124
SelectPrevious ==
    /\ phase = "scan"
    /\ res' = [res EXCEPT !.previous_value = FirstNotNa(res.series)]
    /\ phase' = "done"
    /\ UNCHANGED <<arg, botVars>>

NextPrev == GetSeries \/ SelectPrevious

SpecPrev == InitPrev /\ [][NextPrev]_vars

\* C9: the previous value is the most recent (latest-timestamp) non-absent
\* observation of the 30-day window; when the window holds no non-absent
\* observation (empty or only absent values) it is the single latest known
\* observation.
C9_MostRecentNonAbsent ==
    phase = "done" =>
        res.previous_value =
            (IF \E i \in DOMAIN arg.window : notna(arg.window[i])
             THEN LastNotNa(arg.window)
             ELSE LastNotNa(arg.latest))

(***************************************************************************)
(* fetch_economic_events, lines 126-145: the value formatter.              *)
(***************************************************************************)
\* Python's `needle in text` on strings
Contains(text, needle) ==
    \E i \in 1..(Len(text) - Len(needle) + 1) :
        SubSeq(text, i, i + Len(needle) - 1) = needle

Abs(x) == IF x < 0 THEN -x ELSE x

Sign(x) == IF x < 0 THEN "-" ELSE ""

Digits2(n) == IF n < 10 THEN "0" \o ToString(n) ELSE ToString(n)

Digits3(n) == IF n < 10 THEN "00" \o ToString(n)
              ELSE IF n < 100 THEN "0" \o ToString(n) ELSE ToString(n)

RECURSIVE Grouped(_)
\* the ',' option of the format spec: thousands separators
Grouped(n) == IF n < 1000 THEN ToString(n)
              ELSE Grouped(n \div 1000) \o "," \o Digits3(n % 1000)

\* the integer nearest to |x|, ties to even, as '.0f' rounds
RoundHalfEven(x) ==
    LET q == Abs(x) \div 100
        r == Abs(x) % 100
    IN  IF r > 50 \/ (r = 50 /\ q % 2 = 1) THEN q + 1 ELSE q

\* f"{x:.2f}"
Fixed2(x) == Sign(x) \o ToString(Abs(x) \div 100) \o "." \o Digits2(Abs(x) % 100)

\* f"{x:,.2f}"
Grouped2(x) == Sign(x) \o Grouped(Abs(x) \div 100) \o "." \o Digits2(Abs(x) % 100)

\* f"{x:,.0f}"
Grouped0(x) == Sign(x) \o Grouped(RoundHalfEven(x))

\* line 128
RateKeys == {"UNRATE", "FEDFUNDS", "DGS2", "DGS10", "T10Y2Y"}

\* lines 128-143 as mutated: the jobless-claims and volatility keys tested
\* before the unit strings
BranchKeysFirst(series_id, units) ==
    IF series_id \in RateKeys THEN "percent"
    ELSE IF series_id = "DCOILWTICO" THEN "oil"
    ELSE IF series_id = "GOLDPMGBD228NLBM" THEN "gold"
    ELSE IF series_id = "ICSA" THEN "claims"
    ELSE IF series_id = "VIXCLS" THEN "vix"
    ELSE IF Contains(units, "Billions of Dollars") THEN "billions"
    ELSE IF Contains(units, "Millions of Dollars") THEN "millions"
    ELSE "default"

\* lines 128-143: the branch of the if/elif ladder that is taken
Branch(series_id, units) ==
    IF series_id \in RateKeys THEN "percent"
    ELSE IF series_id = "DCOILWTICO" THEN "oil"
    ELSE IF series_id = "GOLDPMGBD228NLBM" THEN "gold"
    ELSE IF Contains(units, "Billions of Dollars") THEN "billions"
    ELSE IF Contains(units, "Millions of Dollars") THEN "millions"
    ELSE IF series_id = "ICSA" THEN "claims"
    ELSE IF series_id = "VIXCLS" THEN "vix"
    ELSE "default"

\* lines 129-143: the format string of each branch
Render(branch, x) ==
    CASE branch = "percent"  -> Fixed2(x) \o "%"
      [] branch = "oil"      -> "$" \o Fixed2(x) \o "/bbl"
      [] branch = "gold"     -> "$" \o Fixed2(x) \o "/oz"
      [] branch = "billions" -> "$" \o Grouped2(x) \o "B"
      [] branch = "millions" -> "$" \o Grouped2(x) \o "M"
      [] branch = "claims"   -> Grouped0(x)
      [] branch = "vix"      -> Fixed2(x)
      [] OTHER               -> Grouped2(x)

\* lines 127-145
formatted_value(series_id, value, units) ==
    IF value # None /\ notna(value)
    THEN Render(Branch(series_id, units), value[2])
    ELSE "N/A"

(***************************************************************************)
(* SpecFmt: the formatter on every catalog key, sample values and unit     *)
(* strings of the provider.                                                *)
(***************************************************************************)
FmtValues == {None, NaN, Num(-25), Num(410), Num(21350050), Num(123456789)}

UnitSamples == {"", "Percent", "Index 1982-1984=100",
                "Billions of Dollars", "Millions of Dollars",
                "Billions of Dollars, Seasonally Adjusted Annual Rate",
                "Billions of Chained 2017 Dollars", "Number"}

InitFmt ==
    /\ arg \in [series_id : CatalogKeys, value : FmtValues, units : UnitSamples]
    /\ res = [branch |-> None, text |-> None]
    /\ phase = "format"
    /\ BotIdle

\* lines 127-145
FormatStep ==
    /\ phase = "format"
    /\ res' = [branch |-> IF arg.value # None /\ notna(arg.value)
                          THEN Branch(arg.series_id, arg.units) ELSE "n/a",
               text |-> formatted_value(arg.series_id, arg.value, arg.units)]
    /\ phase' = "done"
    /\ UNCHANGED <<arg, botVars>>

NextFmt == FormatStep

SpecFmt == InitFmt /\ [][NextFmt]_vars

StartsWith(text, t) == Len(text) >= Len(t) /\ SubSeq(text, 1, Len(t)) = t

EndsWith(text, t) ==
    Len(text) >= Len(t) /\ SubSeq(text, Len(text) - Len(t) + 1, Len(text)) = t

\* the rule of the stated ladder: first match wins, top to bottom
LadderRule(series_id, units) ==
    CASE series_id \in {"UNRATE", "FEDFUNDS", "DGS2", "DGS10", "T10Y2Y"} -> "percent"
      [] series_id = "DCOILWTICO" -> "oil"
      [] Contains(units, "Billions of Dollars") -> "billions"
      [] Contains(units, "Millions of Dollars") -> "millions"
      [] series_id = "ICSA" -> "claims"
      [] series_id = "VIXCLS" -> "vix"
      [] OTHER -> "default"

\* the shape of the text each rule of the ladder produces
RuleShape(rule, text) ==
    LET money == StartsWith(text, "$")
        twoDecimals(t) == Len(t) >= 4 /\ SubSeq(t, Len(t) - 2, Len(t) - 2) = "."
        body(k) == SubSeq(text, 1, Len(text) - k)
    IN  CASE rule = "percent"  -> EndsWith(text, "%") /\ twoDecimals(body(1)) /\ ~money
          [] rule = "oil"      -> money /\ EndsWith(text, "/bbl") /\ twoDecimals(body(4))
          [] rule = "billions" -> money /\ EndsWith(text, "B") /\ twoDecimals(body(1))
          [] rule = "millions" -> money /\ EndsWith(text, "M") /\ twoDecimals(body(1))
          [] rule = "claims"   -> ~money /\ ~Contains(text, ".")
          [] rule = "vix"      -> ~money /\ twoDecimals(text) /\ ~Contains(text, ",")
          [] OTHER             -> ~money /\ twoDecimals(text)

\* C10: the formatter picks exactly the rule of the ladder (rate keys,
\* oil key, Billions of Dollars, Millions of Dollars, jobless claims,
\* volatility, default; first match wins), the text has that rule's shape,
\* and an absent value yields 'N/A' whatever the key and unit.
C10_LadderFirstMatchWins ==
    phase = "done" =>
        IF arg.value \in {None, NaN}
        THEN res.text = "N/A"
        ELSE /\ res.branch = LadderRule(arg.series_id, arg.units)
             /\ RuleShape(LadderRule(arg.series_id, arg.units), res.text)
             /\ res.text # "N/A"

\* C10 witness: the jobless-claims key with a dollar unit takes the unit rule
C10_Witness ==
    /\ phase = "done"
    /\ arg.series_id = "ICSA"
    /\ arg.units = "Billions of Dollars"
    /\ arg.value = Num(123456789)
    /\ res.text = "$1,234,567.89B"

(***************************************************************************)
(* Clock and time zones.                                                   *)
(***************************************************************************)
\* the instant of day d, hh:mm:ss UTC, in seconds
At(d, hh, mm, ss) == ((d * 24 + hh) * 60 + mm) * 60 + ss

\* the datetime of an instant
DateTime(t) == [day |-> t \div (24 * 3600), hour |-> (t % (24 * 3600)) \div 3600,
                minute |-> (t % 3600) \div 60, second |-> t % 60]

\* the instant of a datetime taken as UTC: .replace(tzinfo=pytz.UTC)
Instant(dt) == At(dt.day, dt.hour, dt.minute, dt.second)

\* line 166: datetime.now(pytz.UTC)
NowUTC == clock

\* lines 83-84: datetime.now(et_tz), US/Eastern at its standard offset UTC-5
NowET == DateTime(clock - 5 * 3600)

(***************************************************************************)
(* fetch_economic_events, lines 78-161, and update_daily_events, 190-194.  *)
(***************************************************************************)
\* what the gateway answers for indicator i in one run: an error (raised by
\* get_series_info, line 104, or by get_series, lines 109 and 117), or the
\* unit string, the 30-day window series and the limit=1 series
GatewayAnswers(i) ==
    {[kind |-> "error", units |-> "", window |-> <<>>, latest |-> <<>>],
     IF i % 2 = 1
     THEN [kind |-> "ok", units |-> "Index 1982-1984=100",
           window |-> <<Num(410), Num(-25)>>, latest |-> <<>>]
     ELSE [kind |-> "ok", units |-> "Billions of Dollars",
           window |-> <<>>, latest |-> <<Num(123456789)>>]}

\* the answers of one run, one per catalog entry walked
RunAnswers ==
    {g \in [1..NumIndicators -> UNION {GatewayAnswers(i) : i \in 1..NumIndicators}] :
        \A i \in 1..NumIndicators : g[i] \in GatewayAnswers(i)}

\* where a run fails apart from the gateway: nowhere; before the try block
\* (lines 83-98); or inside the handler of line 154-156 itself, which the
\* outer handler of line 159 catches
Faults == {"none", "before_try", "in_handler"}

\* line 151
HighImpact == {"CPIAUCSL", "PAYEMS", "GDP", "FEDFUNDS"}

\* lines 147-153
EventRecord(i, date, answer) ==
    LET series_id == ECONOMIC_INDICATORS[i][1]
    IN  [time |-> isoformat(date),
         title |-> ECONOMIC_INDICATORS[i][2],
         series_id |-> series_id,
         impact |-> IF series_id \in HighImpact THEN "High" ELSE "Medium",
         previous |-> formatted_value(series_id,
                          previous_value(answer.window, answer.latest),
                          answer.units)]

\* lines 102-156 as mutated: a failing indicator discards what was collected
AfterIndicatorReset(events, i, date, answer) ==
    IF answer.kind = "ok"
    THEN Append(events, EventRecord(i, date, answer))
    ELSE <<>>

\* lines 102-156: one pass of the loop body; a failing indicator is skipped
AfterIndicator(events, i, date, answer) ==
    IF answer.kind = "ok"
    THEN Append(events, EventRecord(i, date, answer))
    ELSE events

RECURSIVE FetchLoop(_, _, _, _, _, _)
\* lines 101-156: the loop over the catalog
FetchLoop(i, events, failed, date, g, fault) ==
    IF i > NumIndicators
    THEN [caught |-> FALSE, events |-> events, failed |-> failed]
    ELSE IF g[i].kind # "ok" /\ fault = "in_handler"
    THEN [caught |-> TRUE, events |-> events,
          failed |-> failed \cup {ECONOMIC_INDICATORS[i][1]}]
    ELSE FetchLoop(i + 1, AfterIndicator(events, i, date, g[i]),
                   IF g[i].kind # "ok"
                   THEN failed \cup {ECONOMIC_INDICATORS[i][1]} ELSE failed,
                   date, g, fault)

\* string order of two ISO strings
IsoLess(a, b) ==
    LET n == IF Len(a) < Len(b) THEN Len(a) ELSE Len(b)
    IN  \/ \E k \in 1..n : a[k] < b[k] /\ \A j \in 1..(k - 1) : a[j] = b[j]
        \/ Len(a) < Len(b) /\ \A j \in 1..n : a[j] = b[j]

RECURSIVE InsertByTime(_, _)
InsertByTime(e, list) ==
    IF list = <<>> THEN <<e>>
    ELSE IF IsoLess(e.time, list[1].time) THEN <<e>> \o list
    ELSE <<list[1]>> \o InsertByTime(e, Tail(list))

RECURSIVE sorted(_)
\* line 158: sorted(events, key=lambda x: x['time']), a stable sort
sorted(events) ==
    IF events = <<>> THEN <<>>
    ELSE InsertByTime(events[Len(events)],
                      sorted(SubSeq(events, 1, Len(events) - 1)))

\* lines 78-161: the list returned, or the exception raised
fetch_economic_events(now, g, fault) ==
    IF fault = "before_try"
    THEN [raised |-> TRUE, caught |-> FALSE, value |-> <<>>, failed |-> {},
          completed |-> 0]
    ELSE LET r == FetchLoop(1, <<>>, {}, release_date(now), g, fault)
         IN  [raised |-> FALSE, caught |-> r.caught,
              value |-> IF r.caught THEN <<>> ELSE sorted(r.events),
              failed |-> r.failed, completed |-> Len(r.events)]

\* line 194 as mutated: a run that raises empties the cache
CacheAfterRunCleared(cache, r) == IF r.raised THEN <<>> ELSE r.value

\* line 194: daily_events = await fetch_economic_events()
CacheAfterRun(cache, r) == IF r.raised THEN cache ELSE r.value

\* lines 190-194: one run of the refresh job
update_daily_events ==
    \E g \in RunAnswers, fault \in Faults :
        LET r == fetch_economic_events(NowET, g, fault)
            cache == CacheAfterRun(daily_events, r)
        IN  /\ daily_events' = cache
            /\ lastRun' = [outcome |-> IF r.raised THEN "raised"
                                       ELSE IF r.caught THEN "caught"
                                       ELSE "published",
                           failed |-> r.failed,
                           completed |-> r.completed]
            /\ fired' = [held |-> FALSE, count |-> <<>>]
            /\ UNCHANGED <<ANNOUNCEMENT_CHANNELS, clock, ticks, nt, tick, ev, cmd,
                           pureVars>>

(***************************************************************************)
(* check_events, lines 163-188: the notifier job.  The coroutine suspends  *)
(* only in `await channel.send` (line 188); everything between two sends   *)
(* runs without interruption.                                              *)
(***************************************************************************)
Channels == 1..NumChannels

\* line 178: bot.get_channel; every channel of the model is known to the bot
get_channel(channel_id) ==
    IF channel_id \in Channels THEN <<"channel", channel_id>> ELSE None

\* line 171 with the skip left out
IsPlaceholderNever(event_time) == FALSE

\* line 171: event_time.hour == 0 and event_time.minute == 0
IsPlaceholder(event_time) == event_time.hour = 0 /\ event_time.minute = 0

\* line 176: timedelta(minutes=14) <= time_until_event <= timedelta(minutes=15)
InWindow(time_until_event) ==
    14 * 60 <= time_until_event /\ time_until_event <= 15 * 60

\* line 168 as mutated: the loop reads the global anew at every step
IterListReread(bound, global) == global

\* line 168: `for event in daily_events` walks the list bound at loop entry
IterList(bound, global) == bound

RECURSIVE NextPoint(_, _, _, _, _, _, _)
\* lines 168-188: run from the loop position (i, inner, visited, size) to
\* the next send, the end of the loop or the error of the set iterator;
\* acc collects the events taken from the list and those found in the window
NextPoint(list, now, i, inner, visited, size, acc) ==
    IF inner
    THEN IF Cardinality(ANNOUNCEMENT_CHANNELS) # size
         THEN [kind |-> "error", i |-> i, candidates |-> {}, visited |-> visited,
               size |-> size, acc |-> acc]
         ELSE LET rest == {c \in ANNOUNCEMENT_CHANNELS \ visited :
                              get_channel(c) # None}
              IN  IF rest # {}
                  THEN [kind |-> "send", i |-> i, candidates |-> rest,
                        visited |-> visited, size |-> size, acc |-> acc]
                  ELSE NextPoint(list, now, i + 1, FALSE, {}, 0, acc)
    ELSE IF i > Len(list)
    THEN [kind |-> "done", i |-> i, candidates |-> {}, visited |-> {},
          size |-> 0, acc |-> acc]
    ELSE LET event_time == fromisoformat(list[i].time)
             taken == [acc EXCEPT !.seen = Append(@, list[i])]
         IN  IF IsPlaceholder(event_time)
             THEN NextPoint(list, now, i + 1, FALSE, {}, 0, taken)
             ELSE IF InWindow(Instant(event_time) - now)
             THEN NextPoint(list, now, i, TRUE, {},
                            Cardinality(ANNOUNCEMENT_CHANNELS),
                            [taken EXCEPT !.trig = @ \cup {i}])
             ELSE NextPoint(list, now, i + 1, FALSE, {}, 0, taken)

\* the ticks on which each cache position was found in the window, counted
\* while the cache and the registry are the initial ones and no tick raised
Fired(trig, raised) ==
    IF fired.held /\ ~raised
    THEN [fired EXCEPT !.count = [k \in DOMAIN @ |->
                                     IF k \in trig THEN @[k] + 1 ELSE @[k]]]
    ELSE [held |-> FALSE, count |-> <<>>]

\* the coroutine goes on to the point p: it suspends in a send, or the tick
\* ends (loop exhausted, or an exception leaves check_events)
Proceed(p, now, bound, log, reg, touched, outcome) ==
    LET t == [outcome |-> outcome, now |-> now, events |-> bound,
              seen |-> p.acc.seen, trig |-> p.acc.trig, log |-> log,
              reg |-> reg, touched |-> touched]
    IN  IF outcome = "running" /\ p.kind = "send"
        THEN \E ch \in p.candidates :
                /\ nt' = [pc |-> "send", now |-> now, events |-> bound, i |-> p.i,
                          visited |-> p.visited \cup {ch}, size |-> p.size,
                          ch |-> ch]
                /\ tick' = t
                /\ UNCHANGED <<clock, ticks>>
        ELSE /\ nt' = IdleNotifier
             /\ tick' = [t EXCEPT !.outcome = IF outcome = "running" /\ p.kind = "done"
                                              THEN "completed" ELSE "raised"]
             /\ clock' = clock + 60
             /\ ticks' = ticks + 1

\* lines 163-188: a tick starts, or the pending send returns or raises
check_events ==
    /\ IF nt.pc = "idle"
       THEN /\ ticks < MaxTicks
            /\ LET p == NextPoint(IterList(daily_events, daily_events), NowUTC,
                                  1, FALSE, {}, 0, [seen |-> <<>>, trig |-> {}])
               IN  /\ Proceed(p, NowUTC, daily_events, EmptyBag,
                              ANNOUNCEMENT_CHANNELS, FALSE, "running")
                   /\ fired' = Fired(p.acc.trig, p.kind = "error")
       ELSE \E ok \in BOOLEAN :
               LET log == tick.log (+) SetToBag({[i |-> nt.i, ch |-> nt.ch, ok |-> ok]})
                   p == NextPoint(IterList(nt.events, daily_events), nt.now,
                                  nt.i, TRUE, nt.visited, nt.size,
                                  [seen |-> tick.seen, trig |-> tick.trig])
                   stay == [kind |-> "raise", i |-> nt.i, candidates |-> {},
                            visited |-> nt.visited, size |-> nt.size,
                            acc |-> [seen |-> tick.seen, trig |-> tick.trig]]
               IN  IF ok
                   THEN /\ Proceed(p, nt.now, nt.events, log, tick.reg,
                                   tick.touched, "running")
                        /\ fired' = Fired(p.acc.trig \ tick.trig, p.kind = "error")
                   ELSE /\ Proceed(stay, nt.now, nt.events, log, tick.reg,
                                   tick.touched, "raised")
                        /\ fired' = Fired({}, TRUE)
    /\ UNCHANGED <<daily_events, ANNOUNCEMENT_CHANNELS, lastRun, ev, cmd, pureVars>>

(***************************************************************************)
(* set_channel and remove_channel, lines 294-320, and their slash forms,   *)
(* lines 544-556.                                                          *)
(***************************************************************************)
\* who invokes which command in which channel
Invocation(name, channel, administrator) ==
    [name |-> name, channel |-> channel, administrator |-> administrator]

\* the registry changes: a running tick and the fixed-registry record see it
RegistryBecomes(new, command) ==
    /\ ANNOUNCEMENT_CHANNELS' = new
    /\ cmd' = IF cmd = Unrecorded THEN cmd ELSE command
    /\ tick' = IF nt.pc # "idle" /\ new # ANNOUNCEMENT_CHANNELS
               THEN [tick EXCEPT !.touched = TRUE] ELSE tick
    /\ fired' = IF new # ANNOUNCEMENT_CHANNELS
                THEN [held |-> FALSE, count |-> <<>>] ELSE fired
    /\ UNCHANGED <<daily_events, clock, ticks, nt, lastRun, ev, pureVars>>

\* lines 294-306: ;setchannel, refused by has_permissions to a non-administrator
set_channel ==
    \E channel \in Channels, administrator \in BOOLEAN :
        RegistryBecomes(IF administrator
                        THEN ANNOUNCEMENT_CHANNELS \cup {channel}
                        ELSE ANNOUNCEMENT_CHANNELS,
                        Invocation("set_channel", channel, administrator))

\* lines 308-320: ;removechannel
remove_channel ==
    \E channel \in Channels, administrator \in BOOLEAN :
        RegistryBecomes(IF administrator
                        THEN ANNOUNCEMENT_CHANNELS \ {channel}
                        ELSE ANNOUNCEMENT_CHANNELS,
                        Invocation("remove_channel", channel, administrator))

\* lines 544-549: /setchannel.  commands.has_permissions (line 545) attaches
\* its check to the function for the prefix-command framework; the
\* application command built by tree.command does not read it, so the body
\* runs for every invoker
slash_set_channel ==
    \E channel \in Channels, administrator \in BOOLEAN :
        RegistryBecomes(ANNOUNCEMENT_CHANNELS \cup {channel},
                        Invocation("slash_set_channel", channel, administrator))

\* lines 551-556: /removechannel
slash_remove_channel ==
    \E channel \in Channels, administrator \in BOOLEAN :
        RegistryBecomes(ANNOUNCEMENT_CHANNELS \ {channel},
                        Invocation("slash_remove_channel", channel, administrator))

(***************************************************************************)
(* list_events, lines 322-400, and slash_list_events, lines 558-634.       *)
(***************************************************************************)
IsHigh(event) == event.impact = "High"

IsOther(event) == event.impact # "High"

\* lines 332-396 and 564-628: the reply built from the cache in one go
EventsReply(cache) ==
    IF cache = <<>>
    THEN [text |-> "No economic events scheduled.", high |-> <<>>, other |-> <<>>]
    ELSE [text |-> "", high |-> SelectSeq(cache, IsHigh),
          other |-> SelectSeq(cache, IsOther)]

\* lines 322-400: the handler reads the cache and builds both embeds, then
\* awaits its sends
list_events ==
    /\ IF ev.pc = "idle"
       THEN ev' = [pc |-> "sending", reply |-> EventsReply(daily_events)]
       ELSE /\ ev.pc = "sending"
            /\ ev' = NoEvents
    /\ UNCHANGED <<daily_events, ANNOUNCEMENT_CHANNELS, clock, ticks, nt, tick,
                   fired, lastRun, cmd, pureVars>>

\* lines 558-634: the handler first awaits its initial response, then reads
\* the cache and builds both embeds, then awaits its edits and follow-up
slash_list_events ==
    /\ IF ev.pc = "idle"
       THEN ev' = [pc |-> "responding", reply |-> <<>>]
       ELSE IF ev.pc = "responding"
       THEN ev' = [pc |-> "editing", reply |-> EventsReply(daily_events)]
       ELSE /\ ev.pc = "editing"
            /\ ev' = NoEvents
    /\ UNCHANGED <<daily_events, ANNOUNCEMENT_CHANNELS, clock, ticks, nt, tick,
                   fired, lastRun, cmd, pureVars>>

(***************************************************************************)
(* Spec: the bot from construction.  SpecSeeded: the same bot with the     *)
(* cache holding a list of events that carry times of day, the input on    *)
(* which check_events sends, and any set of registered destinations.       *)
(***************************************************************************)
StartClocks == {At(0, 23, 45, 0), At(0, 23, 45, 30), At(4, 21, 45, 0)}

PureIdle ==
    /\ arg = None
    /\ res = None
    /\ phase = "none"

Constructed ==
    /\ PureIdle
    /\ daily_events = <<>>
    /\ ANNOUNCEMENT_CHANNELS = {}
    /\ clock \in StartClocks
    /\ ticks = 0
    /\ nt = IdleNotifier
    /\ tick = NoTick
    /\ fired = [held |-> TRUE, count |-> <<>>]
    /\ lastRun = NoRun
    /\ ev = NoEvents

Init == Constructed /\ cmd = NoCommand

\* the same start, the invocations not recorded
InitUnrecorded == Constructed /\ cmd = Unrecorded

Next ==
    \/ update_daily_events
    \/ check_events
    \/ set_channel
    \/ remove_channel
    \/ slash_set_channel
    \/ slash_remove_channel
    \/ list_events
    \/ slash_list_events

Spec == Init /\ [][Next]_vars

\* the refresh job and the handlers that read the cache
NextRefresh ==
    \/ update_daily_events
    \/ list_events
    \/ slash_list_events

SpecRefresh == Init /\ [][NextRefresh]_vars

\* an event with a time of day, as a refresh with intra-day times would publish it
SeedEvent(i, time) ==
    [time |-> time,
     title |-> ECONOMIC_INDICATORS[i][2],
     series_id |-> ECONOMIC_INDICATORS[i][1],
     impact |-> IF ECONOMIC_INDICATORS[i][1] \in HighImpact THEN "High" ELSE "Medium",
     previous |-> "N/A"]

\* Tuesday 12:00:00 UTC and half a minute later
SeededClocks == {At(1, 12, 0, 0), At(1, 12, 0, 30)}

\* events 14:30 and 15:00 after 12:00:00 and a date-only event of the next day
SeedList ==
    << SeedEvent(1, <<1, 12, 14, 30>>), SeedEvent(4, <<1, 12, 15, 0>>),
       SeedEvent(5, <<2>>) >>

InitSeeded ==
    /\ PureIdle
    /\ daily_events = SeedList
    /\ ANNOUNCEMENT_CHANNELS = Channels
    /\ clock \in SeededClocks
    /\ ticks = 0
    /\ nt = IdleNotifier
    /\ tick = NoTick
    /\ fired = [held |-> TRUE, count |-> [k \in 1..Len(daily_events) |-> 0]]
    /\ lastRun = NoRun
    /\ ev = NoEvents
    /\ cmd = NoCommand

\* the cache, its writer and its readers
NextReaders ==
    \/ update_daily_events
    \/ check_events
    \/ list_events
    \/ slash_list_events

SpecSeeded == InitSeeded /\ [][NextReaders]_vars

\* the notifier and the registry commands, the cache held fixed
NextNotify ==
    \/ check_events
    \/ set_channel
    \/ remove_channel

SpecNotify == InitSeeded /\ [][NextNotify]_vars

(***************************************************************************)
(* Claims about the refresh job.                                           *)
(***************************************************************************)
\* a step of update_daily_events that is not a stuttering step
RunStep == lastRun' # lastRun \/ daily_events' # daily_events

\* C1 (as stated): a run that throws before completing any indicator
\* leaves the cache unchanged: after it daily_events is the list it was.
C1_FailedRunKeepsCache ==
    [][(RunStep /\ lastRun'.outcome \in {"raised", "caught"}
                /\ lastRun'.completed = 0)
          => daily_events' = daily_events]_vars

\* C1 (amended): a run whose exception leaves fetch_economic_events (it is
\* raised before the try block) leaves the cache unchanged; a run whose
\* exception is raised inside the try block and caught by the outer handler
\* replaces the cache by the empty list.
C1_RaisedKeepsCaughtEmpties ==
    [][RunStep =>
          /\ lastRun'.outcome = "raised" => daily_events' = daily_events
          /\ lastRun'.outcome = "caught" => daily_events' = <<>>]_vars

\* C1 witness: a run raised before completing any indicator and a
\* non-empty cache is still in place
C1_Witness ==
    /\ lastRun.outcome = "raised"
    /\ lastRun.completed = 0
    /\ daily_events # <<>>

\* the catalog keys a run walks, in order
WalkedKeys == [i \in 1..NumIndicators |-> ECONOMIC_INDICATORS[i][1]]

NotFailed(series_id) == series_id \notin lastRun.failed

\* C2: whatever set F of keys fails at the gateway, the run goes through the
\* whole catalog and publishes exactly one event for each key not in F, in
\* catalog order, and none for a key in F: length = catalog size - |F|.
C2_PublishesAllButFailed ==
    lastRun.outcome = "published" =>
        /\ [k \in 1..Len(daily_events) |-> daily_events[k].series_id]
               = SelectSeq(WalkedKeys, NotFailed)
        /\ Len(daily_events) = NumIndicators - Cardinality(lastRun.failed)
        /\ lastRun.completed + Cardinality(lastRun.failed) = NumIndicators

\* C2 witness: the first key failed, a later one was published
C2_Witness ==
    /\ lastRun.outcome = "published"
    /\ lastRun.failed = {ECONOMIC_INDICATORS[1][1]}
    /\ Len(daily_events) = NumIndicators - 1
    /\ daily_events[1].series_id = ECONOMIC_INDICATORS[2][1]

(***************************************************************************)
(* Claims about the cache and its readers.                                 *)
(***************************************************************************)
IsPrefix(a, b) == Len(a) <= Len(b) /\ a = SubSeq(b, 1, Len(a))

\* a list as one refresh builds it: ascending by time, one event per key,
\* title and impact those of the catalog
WellFormed(list) ==
    /\ \A j, k \in 1..Len(list) : j < k => ~IsoLess(list[k].time, list[j].time)
    /\ \A j, k \in 1..Len(list) : j # k => list[j].series_id # list[k].series_id
    /\ \A k \in 1..Len(list) :
          \E i \in DOMAIN ECONOMIC_INDICATORS :
             /\ list[k].series_id = ECONOMIC_INDICATORS[i][1]
             /\ list[k].title = ECONOMIC_INDICATORS[i][2]
             /\ list[k].impact = (IF list[k].series_id \in HighImpact
                                  THEN "High" ELSE "Medium")

\* C3: under every interleaving of the refresh job with the notifier tick
\* (suspended in a send) and the events handlers, the list a reader walks
\* is one whole published list: the cache is always a complete sorted
\* list, the events a tick has taken are a prefix of the list bound when
\* its loop started, and a reply shows the two parts of one such list.
C3_AllOrNothing ==
    /\ WellFormed(daily_events)
    /\ tick.outcome # "none" =>
          /\ WellFormed(tick.events)
          /\ IsPrefix(tick.seen, tick.events)
    /\ ev.pc \in {"sending", "editing"} =>
          /\ WellFormed(ev.reply.high)
          /\ WellFormed(ev.reply.other)
          /\ \A k \in 1..Len(ev.reply.high) : ev.reply.high[k].impact = "High"
          /\ \A k \in 1..Len(ev.reply.other) : ev.reply.other[k].impact = "Medium"
          /\ \A j \in 1..Len(ev.reply.high), k \in 1..Len(ev.reply.other) :
                ev.reply.high[j].series_id # ev.reply.other[k].series_id
          /\ (ev.reply.text # "") = (ev.reply.high \o ev.reply.other = <<>>)

\* C3 witness: a tick is suspended in a send in the middle of its list
\* while the cache has been replaced by a refresh
C3_Witness ==
    /\ nt.pc = "send"
    /\ lastRun.outcome = "published"
    /\ daily_events # nt.events
    /\ daily_events # <<>>
    /\ tick.seen # <<>>
    /\ Len(tick.seen) < Len(nt.events)

(***************************************************************************)
(* Claims about the notifier.                                              *)
(***************************************************************************)
\* the sends of the tick for cache position i and channel c
Sends(i, c) ==
    CopiesIn([i |-> i, ch |-> c, ok |-> TRUE], tick.log)
        + CopiesIn([i |-> i, ch |-> c, ok |-> FALSE], tick.log)

\* the event has a time of day and lies 14 to 15 minutes ahead of now
Due(event, now) ==
    /\ Len(event.time) > 1
    /\ 14 * 60 <= Instant(fromisoformat(event.time)) - now
    /\ Instant(fromisoformat(event.time)) - now <= 15 * 60

TickOver == tick.outcome \in {"completed", "raised"} /\ ~tick.touched

UpperCase == "ABCDEFGHIJKLMNOPQRSTUVWXYZ"

LowerCase == "abcdefghijklmnopqrstuvwxyz"

RECURSIVE MapChar(_, _, _, _)
\* the k-th or a later character of `from` that equals c, mapped into `to`
MapChar(c, from, to, k) ==
    IF k > Len(from) THEN c
    ELSE IF SubSeq(from, k, k) = c THEN SubSeq(to, k, k)
    ELSE MapChar(c, from, to, k + 1)

RECURSIVE MapStr(_, _, _)
MapStr(text, from, to) ==
    IF Len(text) = 0 THEN ""
    ELSE MapChar(SubSeq(text, 1, 1), from, to, 1)
            \o MapStr(SubSeq(text, 2, Len(text)), from, to)

\* line 245 with the case folding left out
lower_unchanged(text) == text

\* line 245: str.lower()
lower(text) == MapStr(text, UpperCase, LowerCase)

\* line 261: str.upper()
upper(text) == MapStr(text, LowerCase, UpperCase)

\* lines 246-248
valid_timeframes == [d |-> "daily", w |-> "weekly", m |-> "monthly"]

\* line 250
EliteTimeframes == {"3", "5", "15"}

\* a message without attachment
NoFile == [filename |-> "", bytes |-> ""]

\* lines 251 and 255: the two fixed messages
EliteMessage ==
    [kind |-> "text",
     content |-> "Intraday charts are only available for FINVIZ*Elite users.",
     image |-> "", file |-> NoFile]

InvalidTimeframeMessage ==
    [kind |-> "text",
     content |-> "Invalid timeframe. Use 'd' for daily, 'w' for weekly, or 'm' for monthly.",
     image |-> "", file |-> NoFile]

\* lines 259-262: p_map[valid_timeframes[timeframe]] is the timeframe again
chart_url(upper_ticker, p) ==
    "https://finviz.com/chart.ashx?t=" \o upper_ticker \o "&ty=c&ta=1&p=" \o p \o "&s=l"

\* line 289 with the parameter left out
cache_bust_url_plain(url, now) == url

\* line 289: f"{chart_url}&rand={int(time.time())}"
cache_bust_url(url, now) == url \o "&rand=" \o ToString(now)

\* lines 277-282: the embed with the downloaded image attached
AttachmentMessage(upper_ticker, timeframe, now, image_bytes) ==
    LET file_name == upper_ticker \o "_" \o timeframe \o "_" \o ToString(now) \o ".png"
    IN  [kind |-> "chart",
         content |-> upper_ticker \o " " \o valid_timeframes[timeframe] \o " Chart",
         image |-> "attachment://" \o file_name,
         file |-> [filename |-> file_name, bytes |-> image_bytes]]

\* lines 289-292: the embed that points to the chart URL
FallbackMessage(upper_ticker, timeframe, now) ==
    [kind |-> "chart",
     content |-> upper_ticker \o " " \o valid_timeframes[timeframe] \o " Chart",
     image |-> cache_bust_url(chart_url(upper_ticker, timeframe), now),
     file |-> NoFile]

\* what the charting site does with the one GET of line 274: a response with
\* a status whose body can be read, a 200 whose body cannot be read, a
\* timeout of the 15 s budget, a connection error
FetchOutcomes ==
    {[kind |-> "response", status |-> 200, body |-> "png"],
     [kind |-> "response", status |-> 200, body |-> "unreadable"],
     [kind |-> "response", status |-> 404, body |-> "html"],
     [kind |-> "timeout", status |-> 0, body |-> ""],
     [kind |-> "error", status |-> 0, body |-> ""]}

\* line 275-276: the status is 200 and resp.read() returns the bytes
GotImage(net) == net.kind = "response" /\ net.status = 200 /\ net.body = "png"

\* one channel.send: the message and whether the chat service took it;
\* delivery[k] tells it for the k-th send of the invocation
SendTo(out, message, delivery) ==
    LET k == Len(out.attempts) + 1
    IN  [out EXCEPT !.attempts = Append(@, [message |-> message,
                                            delivered |-> delivery[k]]),
                    !.raised = ~delivery[k]]

\* lines 243-292: send_chart from the outcome `out` so far; raised tells
\* whether an exception leaves the function
send_chart(out, ticker, timeframe0, net, now, delivery) ==
    LET timeframe == lower(timeframe0)
        upper_ticker == upper(ticker)
    IN  IF timeframe \in EliteTimeframes
        THEN SendTo(out, EliteMessage, delivery)
        ELSE IF timeframe \notin DOMAIN valid_timeframes
        THEN SendTo(out, InvalidTimeframeMessage, delivery)
        ELSE LET asked == [out EXCEPT !.requests = @ + 1]
                 tried == IF GotImage(net)
                          THEN SendTo(asked, AttachmentMessage(upper_ticker, timeframe,
                                                               now, net.body),
                                      delivery)
                          ELSE [asked EXCEPT !.raised = TRUE]
             IN  IF tried.raised
                 THEN SendTo(tried, FallbackMessage(upper_ticker, timeframe, now),
                             delivery)
                 ELSE tried

NoOutcome == [attempts |-> <<>>, requests |-> 0, raised |-> FALSE, edited |-> FALSE]

Tickers == {"aapl", "Msft"}

TimeframeTokens == {"d", "w", "m", "D", "W", "M", "3", "5", "15", "1", "x", "dw"}

\* lines 762-766: the choices of the slash command
SlashTimeframes == {"d", "w", "m"}

\* one invocation: its entry point, its arguments, what the charting site
\* and the chat service will answer, and int(time.time())
InitChart ==
    /\ arg \in [entry : {"on_message", "slash_chart"},
                ticker : Tickers,
                timeframe : TimeframeTokens,
                net : FetchOutcomes,
                now : {1717171717},
                delivery : [1..4 -> BOOLEAN],
                defer : BOOLEAN,
                edit : BOOLEAN]
    /\ arg.entry = "slash_chart" => arg.timeframe \in SlashTimeframes
    /\ arg.entry = "on_message" => arg.defer /\ arg.edit
    /\ res = NoOutcome
    /\ phase = "start"
    /\ BotIdle

\* lines 230-235: parts == [ticker, timeframe], await send_chart(...)
on_message ==
    /\ phase = "start"
    /\ arg.entry = "on_message"
    /\ res' = send_chart(NoOutcome, arg.ticker, arg.timeframe, arg.net, arg.now,
                         arg.delivery)
    /\ phase' = "done"
    /\ UNCHANGED <<arg, botVars>>

\* lines 767-778: defer, send_chart, edit of the original response; any
\* exception of the three leads to the handler of line 775
slash_chart ==
    /\ phase = "start"
    /\ arg.entry = "slash_chart"
    /\ LET first == IF arg.defer
                    THEN send_chart(NoOutcome, arg.ticker, arg.timeframe, arg.net,
                                    arg.now, arg.delivery)
                    ELSE [NoOutcome EXCEPT !.raised = TRUE]
           tried == IF first.raised THEN first
                    ELSE [first EXCEPT !.edited = arg.edit, !.raised = ~arg.edit]
       IN  res' = IF tried.raised
                  THEN send_chart([tried EXCEPT !.raised = FALSE], arg.ticker,
                                  arg.timeframe, arg.net, arg.now, arg.delivery)
                  ELSE tried
    /\ phase' = "done"
    /\ UNCHANGED <<arg, botVars>>

NextChart == on_message \/ slash_chart

SpecChart == InitChart /\ [][NextChart]_vars

\* the messages the channel received
Delivered(attempts) ==
    SelectSeq(attempts, LAMBDA a : a.delivered)

\* C11: a timeframe token of 3, 5 or 15 gets the fixed 'Elite users'
\* message, any other token outside d/w/m in either case gets the fixed
\* invalid-timeframe message; in both cases exactly one message is sent and
\* no HTTP request is issued, and a token d/w/m in either case does lead to
\* the request.
C11_ValidationBeforeNetwork ==
    (phase = "done" /\ arg.entry = "on_message") =>
        IF arg.timeframe \in {"3", "5", "15"}
        THEN /\ res.requests = 0
             /\ Len(res.attempts) = 1
             /\ res.attempts[1].message = EliteMessage
        ELSE IF arg.timeframe \notin {"d", "w", "m", "D", "W", "M"}
        THEN /\ res.requests = 0
             /\ Len(res.attempts) = 1
             /\ res.attempts[1].message = InvalidTimeframeMessage
        ELSE res.requests = 1

\* C11 witness: the token 15 was answered with the 'Elite users' message
C11_Witness ==
    /\ phase = "done"
    /\ arg.entry = "on_message"
    /\ arg.timeframe = "15"
    /\ res.requests = 0
    /\ Len(res.attempts) = 1
    /\ res.attempts[1].delivered

\* C12: for a valid ticker and timeframe, with the chat service taking
\* what is sent, send_chart completes with exactly one chart message and
\* raises nothing: with a 200 whose body was read the message carries the
\* image bytes as an attachment; otherwise (non-200, timeout, network
\* failure) it carries the chart URL with an appended cache-busting
\* parameter and no attachment.
C12_OneChartMessage ==
    (/\ phase = "done"
     /\ arg.entry = "on_message"
     /\ arg.timeframe \in {"d", "w", "m", "D", "W", "M"}
     /\ \A k \in 1..Len(res.attempts) : res.attempts[k].delivered) =>
        /\ ~res.raised
        /\ Len(res.attempts) = 1
        /\ LET message == res.attempts[1].message
               url == "https://finviz.com/chart.ashx?t="
           IN  /\ message.kind = "chart"
               /\ IF GotImage(arg.net)
                  THEN /\ message.file # NoFile
                       /\ message.file.bytes = arg.net.body
                       /\ message.image = "attachment://" \o message.file.filename
                  ELSE /\ message.file = NoFile
                       /\ StartsWith(message.image, url)
                       /\ EndsWith(message.image, "&rand=" \o ToString(arg.now))
                       /\ Len(message.image) > Len(url) + Len("&rand=" \o ToString(arg.now))

\* C12 witness: the site answered 404 and the one message carries the URL
C12_Witness ==
    /\ phase = "done"
    /\ arg.entry = "on_message"
    /\ arg.timeframe = "W"
    /\ arg.net.status = 404
    /\ Len(res.attempts) = 1
    /\ res.attempts[1].delivered
    /\ res.attempts[1].message.file = NoFile

\* C17: one /chart invocation with a valid ticker and timeframe sends at
\* most one chart message to the channel, whichever of its steps fails.
C17_AtMostOneChartMessage ==
    (phase = "done" /\ arg.entry = "slash_chart") =>
        Len(Delivered(res.attempts)) <= 1

(***************************************************************************)
(* The data handlers: get_current_data (lines 403-434), search_series      *)
(* (437-500), get_correlation (503-540) and their slash forms (636-755).   *)
(* The data gateway (fred) is the environment: each of its calls either    *)
(* raises or returns a value.                                              *)
(***************************************************************************)
GatewayError == [kind |-> "error", text |-> "Bad Request.  The series does not exist."]

Returned(value) == [kind |-> "ok", value |-> value]

\* the answer of a call the handler does not make
NotAsked == [kind |-> "unasked"]

\* one send of the handler: ctx.send in the prefix form,
\* interaction.response.send_message in the slash form
Reply(out, message, delivery) ==
    LET k == Len(out.attempts) + 1
    IN  [out EXCEPT !.attempts = Append(@, [message |-> message,
                                            delivered |-> delivery[k]]),
                    !.raised = ~delivery[k]]

TextMessage(content) == [kind |-> "text", content |-> content, fields |-> <<>>]

EmbedMessage(title, fields) == [kind |-> "embed", content |-> title, fields |-> fields]

\* a try block that ended in `failure` (a string, "" for none) after the
\* outcome `out`: the handler of the except clause sends prefix + str(e)
Handled(out, failure, prefix, delivery) ==
    IF failure # ""
    THEN Reply(out, TextMessage(prefix \o failure), delivery)
    ELSE IF out.raised
    THEN Reply(out, TextMessage(prefix \o "send failed"), delivery)
    ELSE out

NoReplies == [attempts |-> <<>>, raised |-> FALSE]

\* line 422: series.dropna()
dropna(series) == SelectSeq(series, notna)

\* positions of the observations that dropna keeps, in order
RECURSIVE KeptDates(_, _)
KeptDates(series, k) ==
    IF k > Len(series) THEN <<>>
    ELSE IF notna(series[k]) THEN <<k>> \o KeptDates(series, k + 1)
    ELSE KeptDates(series, k + 1)

\* lines 416-434 and 648-666
GetData(info, series, delivery) ==
    LET prefix == "Error fetching data: "
    IN  IF info.kind = "error" THEN Handled(NoReplies, info.text, prefix, delivery)
        ELSE IF series.kind = "error"
        THEN Handled(NoReplies, series.text, prefix, delivery)
        ELSE LET kept == dropna(series.value)
                 dates == KeptDates(series.value, 1)
             IN  IF kept = <<>>
                 THEN Handled(NoReplies, "single positional indexer is out-of-bounds",
                              prefix, delivery)
                 ELSE Handled(
                        Reply(NoReplies,
                              EmbedMessage(info.value.title,
                                  << <<"Latest Value", Grouped2(kept[Len(kept)][2])>>,
                                     <<"Last Updated", ToString(dates[Len(dates)])>>,
                                     <<"Units", info.value.units>> >>),
                              delivery),
                        "", prefix, delivery)

RECURSIVE Find(_, _, _)
\* str.find from position i: the first index of needle, 0 when absent
Find(text, needle, i) ==
    IF i + Len(needle) - 1 > Len(text) THEN 0
    ELSE IF SubSeq(text, i, i + Len(needle) - 1) = needle THEN i
    ELSE Find(text, needle, i + 1)

RECURSIVE replace(_, _, _)
\* str.replace(old, new)
replace(text, old, new) ==
    LET i == Find(text, old, 1)
    IN  IF i = 0 THEN text
        ELSE SubSeq(text, 1, i - 1) \o new
                \o replace(SubSeq(text, i + Len(old), Len(text)), old, new)

RECURSIVE strip(_)
\* str.strip() for blanks
strip(text) ==
    IF Len(text) = 0 THEN text
    ELSE IF SubSeq(text, 1, 1) = " " THEN strip(SubSeq(text, 2, Len(text)))
    ELSE IF SubSeq(text, Len(text), Len(text)) = " "
    THEN strip(SubSeq(text, 1, Len(text) - 1))
    ELSE text

\* units.split('=')[1]
SecondPart(text) ==
    LET i == Find(text, "=", 1)
        rest == SubSeq(text, i + 1, Len(text))
        j == Find(rest, "=", 1)
    IN  IF j = 0 THEN rest ELSE SubSeq(rest, 1, j - 1)

\* lines 472-484 and 697-709
SearchUnits(units) ==
    IF Contains(units, "Index")
    THEN IF Contains(units, "=")
         THEN "Index (Base: " \o strip(SecondPart(units)) \o ")"
         ELSE "Index"
    ELSE IF Contains(units, "Dollars per")
    THEN "$" \o replace(units, "Dollars per", "per")
    ELSE IF Contains(units, "Billions of Dollars") THEN "$B"
    ELSE IF Contains(units, "Millions of Dollars") THEN "$M"
    ELSE units

\* lines 463-496 and 688-721: the embed field of one result row
SearchField(row) ==
    LET freq == replace(replace(row.frequency, ", Ending Friday", ""), ", Close", "")
        title == IF Len(row.title) > 50
                 THEN SubSeq(row.title, 1, 47) \o "..." ELSE row.title
    IN  <<title,
          "Series ID: " \o row.id \o " Frequency: " \o freq
             \o " Units: " \o SearchUnits(row.units) >>

\* lines 452-500 and 678-725; fred.search returns None when nothing matches
Search(keywords, results, delivery) ==
    LET prefix == "Error searching: "
    IN  IF results.kind = "error"
        THEN Handled(NoReplies, results.text, prefix, delivery)
        ELSE IF results.value = None
        THEN Handled(NoReplies, "'NoneType' object has no attribute 'iterrows'",
                     prefix, delivery)
        ELSE Handled(
               Reply(NoReplies,
                     EmbedMessage("Search Results for '" \o keywords \o "'",
                                  [k \in 1..(Len(results.value) - 1) |->
                                       SearchField(results.value[k + 1])]),
                     delivery),
               "", prefix, delivery)

\* the dates at which both series have a value that is not NaN
Overlap(data1, data2) ==
    {t \in (DOMAIN data1) \cap (DOMAIN data2) : notna(data1[t]) /\ notna(data2[t])}

RECURSIVE Sum(_, _)
Sum(f, S) ==
    IF S = {} THEN 0
    ELSE LET t == CHOOSE t \in S : TRUE IN f[t] + Sum(f, S \ {t})

\* Series.corr (Pearson): the series are aligned on their common dates,
\* the pairs with a NaN are dropped; no pair, one pair or a constant series
\* give NaN, without an exception.  The coefficient is given in hundredths.
corr(data1, data2) ==
    LET S == Overlap(data1, data2)
        n == Cardinality(S)
        sx == Sum([t \in S |-> data1[t][2]], S)
        sy == Sum([t \in S |-> data2[t][2]], S)
        sxx == n * Sum([t \in S |-> data1[t][2] * data1[t][2]], S) - sx * sx
        syy == n * Sum([t \in S |-> data2[t][2] * data2[t][2]], S) - sy * sy
        sxy == n * Sum([t \in S |-> data1[t][2] * data2[t][2]], S) - sx * sy
        D == sxx * syy
        N == 40000 * sxy * sxy
        k == CHOOSE k \in 0..100 :
                /\ k = 0 \/ (2 * k - 1) * (2 * k - 1) * D <= N
                /\ N < (2 * k + 1) * (2 * k + 1) * D
    IN  IF n < 1 \/ D = 0 THEN NaN
        ELSE Num(IF sxy < 0 THEN -k ELSE k)

\* line 536: f"{correlation:.2f}"
FormatCorrelation(correlation) ==
    IF notna(correlation) THEN Fixed2(correlation[2]) ELSE "nan"

\* lines 520-540 and 735-755
Correlation(data1, data2, delivery) ==
    LET prefix == "Error calculating correlation: "
    IN  IF data1.kind = "error" THEN Handled(NoReplies, data1.text, prefix, delivery)
        ELSE IF data2.kind = "error"
        THEN Handled(NoReplies, data2.text, prefix, delivery)
        ELSE Handled(
               Reply(NoReplies,
                     EmbedMessage("Correlation Analysis",
                         << <<"Correlation Coefficient",
                              FormatCorrelation(corr(data1.value, data2.value))>> >>),
                     delivery),
               "", prefix, delivery)

\* what the gateway may answer
InfoAnswers ==
    {GatewayError,
     Returned([title |-> "Consumer Price Index", units |-> "Index 1982-1984=100"]),
     Returned([title |-> "CBOE Volatility Index: VIX", units |-> "N/A"])}

SeriesAnswers == {GatewayError} \cup {Returned(v) : v \in SeriesUpTo(MaxSeriesLen)}

SearchRows ==
    {[id |-> "DCOILWTICO", frequency |-> "Daily, Close",
      title |-> "Crude Oil Prices: West Texas Intermediate (WTI) - Cushing, Oklahoma",
      units |-> "Dollars per Barrel"],
     [id |-> "CPIAUCSL", frequency |-> "Monthly",
      title |-> "Consumer Price Index for All Urban Consumers",
      units |-> "Index 1982-1984=100"],
     [id |-> "WALCL", frequency |-> "Weekly, Ending Friday",
      title |-> "Assets: Total Assets",
      units |-> "Millions of Dollars"]}

\* a result frame is given as <<"frame", row, ...>>
SearchAnswers ==
    {GatewayError, Returned(None)}
    \cup {Returned(<<"frame">> \o rows) : rows \in UNION {[1..k -> SearchRows] : k \in 0..2}}

CorrValues == {NaN, Num(1), Num(3)}

DatedSeries == UNION {[D -> CorrValues] : D \in SUBSET (1..MaxSeriesLen)}

DatedAnswers == {GatewayError} \cup {Returned(v) : v \in DatedSeries}

DataHandlers ==
    {"get_current_data", "search_series", "get_correlation",
     "slash_get_current_data", "slash_search_series", "slash_get_correlation"}

\* one invocation of one handler with the answers of the gateway and of the
\* chat service; the answers a handler does not ask for are NotAsked
InitData ==
    /\ \E handler \in DataHandlers, delivery \in [1..2 -> BOOLEAN] :
          \/ /\ handler \in {"get_current_data", "slash_get_current_data"}
             /\ \E info \in InfoAnswers, series \in SeriesAnswers :
                   arg = [handler |-> handler, delivery |-> delivery, info |-> info,
                          series |-> series, results |-> NotAsked, data1 |-> NotAsked,
                          data2 |-> NotAsked]
          \/ /\ handler \in {"search_series", "slash_search_series"}
             /\ \E results \in SearchAnswers :
                   arg = [handler |-> handler, delivery |-> delivery, info |-> NotAsked,
                          series |-> NotAsked, results |-> results, data1 |-> NotAsked,
                          data2 |-> NotAsked]
          \/ /\ handler \in {"get_correlation", "slash_get_correlation"}
             /\ \E data1 \in DatedAnswers, data2 \in DatedAnswers :
                   arg = [handler |-> handler, delivery |-> delivery, info |-> NotAsked,
                          series |-> NotAsked, results |-> NotAsked, data1 |-> data1,
                          data2 |-> data2]
    /\ res = NoReplies
    /\ phase = "start"
    /\ BotIdle

Handles(name, outcome) ==
    /\ phase = "start"
    /\ arg.handler = name
    /\ res' = outcome
    /\ phase' = "done"
    /\ UNCHANGED <<arg, botVars>>

\* lines 403-434
get_current_data ==
    Handles("get_current_data", GetData(arg.info, arg.series, arg.delivery))

\* lines 437-500
search_series ==
    Handles("search_series", Search("oil", arg.results, arg.delivery))

\* lines 503-540
get_correlation ==
    Handles("get_correlation", Correlation(arg.data1, arg.data2, arg.delivery))

\* lines 646-666
slash_get_current_data ==
    Handles("slash_get_current_data", GetData(arg.info, arg.series, arg.delivery))

\* lines 676-725
slash_search_series ==
    Handles("slash_search_series", Search("oil", arg.results, arg.delivery))

\* lines 733-755
slash_get_correlation ==
    Handles("slash_get_correlation", Correlation(arg.data1, arg.data2, arg.delivery))

NextData ==
    \/ get_current_data
    \/ search_series
    \/ get_correlation
    \/ slash_get_current_data
    \/ slash_search_series
    \/ slash_get_correlation

SpecData == InitData /\ [][NextData]_vars

IsErrorMessage(message) ==
    message.kind = "text" /\ StartsWith(message.content, "Error ")

\* every value of the argument's answer is a series without a non-absent value
NoValue(answer) ==
    /\ answer.kind = "ok"
    /\ \A t \in DOMAIN answer.value : ~notna(answer.value[t])

Failed(answer) == answer.kind = "error"

\* C13: in the getdata, search and correlation handlers, prefix and slash,
\* whenever a gateway call fails or returns a series with no non-absent
\* value (and the chat service takes the reply), the handler sends exactly
\* one message, an error message, and no exception leaves the handler.
C13_GatewayFailureGivesErrorMessage ==
    (/\ phase = "done"
     /\ arg.delivery[1]
     /\ \/ Failed(arg.info) \/ Failed(arg.series) \/ Failed(arg.results)
        \/ Failed(arg.data1) \/ Failed(arg.data2)
        \/ NoValue(arg.series) \/ NoValue(arg.data1) \/ NoValue(arg.data2)) =>
        /\ ~res.raised
        /\ Len(res.attempts) = 1
        /\ IsErrorMessage(res.attempts[1].message)

\* C14: given two series with fewer than 2 overlapping (aligned, non-absent)
\* points, the correlation handler replies with an error message and not
\* with a 'Correlation Coefficient' reply, and nothing is raised.
C14_TooFewPointsGivesError ==
    (/\ phase = "done"
     /\ arg.handler \in {"get_correlation", "slash_get_correlation"}
     /\ arg.delivery[1]
     /\ arg.data1.kind = "ok" /\ arg.data2.kind = "ok"
     /\ Cardinality(Overlap(arg.data1.value, arg.data2.value)) < 2) =>
        /\ ~res.raised
        /\ Len(res.attempts) = 1
        /\ IsErrorMessage(res.attempts[1].message)

(***************************************************************************)
(* Claims about the registry commands and about what the notifier sends    *)
(* from a cache that only the refresh job fills.                           *)
(***************************************************************************)
\* the four registry commands, with the notifier running
NextRegistry ==
    \/ set_channel
    \/ remove_channel
    \/ slash_set_channel
    \/ slash_remove_channel
    \/ check_events

SpecRegistry == Init /\ [][NextRegistry]_vars

\* the bot without its chat reads: refresh job, notifier, registry commands
NextSilent ==
    \/ update_daily_events
    \/ check_events
    \/ set_channel
    \/ remove_channel
    \/ slash_set_channel
    \/ slash_remove_channel

SpecSilent == InitUnrecorded /\ [][NextSilent]_vars

\* C15: an invocation of setchannel / removechannel, prefix or slash, by a
\* non-administrator leaves the destination set unchanged; one by an
\* administrator adds, respectively removes, exactly the invoking channel.
C15_OnlyAdministratorsChangeRegistry ==
    [][(cmd' # cmd \/ ANNOUNCEMENT_CHANNELS' # ANNOUNCEMENT_CHANNELS) =>
          ANNOUNCEMENT_CHANNELS' =
             (IF ~cmd'.administrator THEN ANNOUNCEMENT_CHANNELS
              ELSE IF cmd'.name \in {"set_channel", "slash_set_channel"}
              THEN ANNOUNCEMENT_CHANNELS \cup {cmd'.channel}
              ELSE ANNOUNCEMENT_CHANNELS \ {cmd'.channel})]_vars

\* C16: from the empty cache, after any sequence of refresh runs, notifier
\* ticks and setchannel / removechannel commands, the notifier has sent
\* nothing: no tick ever finds an event in its window or issues a send.
C16_NotifierNeverSends ==
    /\ nt.pc = "idle"
    /\ tick.trig = {}
    /\ tick.log = EmptyBag

\* C16 witness: a tick with a registered destination went through a
\* non-empty published cache whose (date-only) event lies, read as
\* midnight, 14 to 15 minutes ahead
C16_Witness ==
    /\ tick.outcome = "completed"
    /\ tick.reg # {}
    /\ tick.events # <<>>
    /\ tick.seen = tick.events
    /\ InWindow(Instant(fromisoformat(tick.events[1].time)) - tick.now)

====
